---- MODULE Spec2Model ----
(***************************************************************************)
(* A model of go-hexdump (src/hexdump.go): main, openRegularFile, hexdump, *)
(* formatBuffer and isPrintable.  Text is modelled by TLA+ strings, so a   *)
(* printed line is the very string fmt.Printf writes.                      *)
(***************************************************************************)
EXTENDS Integers, Sequences, FiniteSets, TLC

(***************************************************************************)
(* Program constants (src/hexdump.go:29-46).                               *)
(***************************************************************************)
\* a chunk size that is no multiple of the display widths
bufferSize_NotRowMultiple == 10 * 100

bufferSize == 4096

normalWidth == 16

wideWidth == 32

extraWideWidth == 64

chSpace == 32

chDel == 127

hex16Bits == "%4.4X"

hex32Bits == "%8.8X"

hex64Bits == "%16.16X"

\* An int64 does not fit TLC's integers: a 64-bit quantity is kept as two
\* base-65536 digits, hi * 65536 + lo with 0 <= lo < 65536.
Radix == 256 * 256

Int64(n) == [hi |-> n \div Radix, lo |-> n % Radix]

Less64(a, b) == a.hi < b.hi \/ (a.hi = b.hi /\ a.lo < b.lo)

\* maxUint16 = ^uint16(0) = 65535, widened by int64(maxUint16)
maxUint16 == [hi |-> 0, lo |-> Radix - 1]

\* maxUint32 = ^uint32(0) = 4294967295, widened by int64(maxUint32)
maxUint32 == [hi |-> Radix - 1, lo |-> Radix - 1]

(***************************************************************************)
(* fmt verbs used by the program.                                          *)
(***************************************************************************)
UpperDigits == "0123456789ABCDEF"

LowerDigits == "0123456789abcdef"

Chr(s, k) == SubSeq(s, k, k)

RECURSIVE Repeat(_, _)
Repeat(c, n) ==
    IF n <= 0 THEN ""
    ELSE IF n = 1 THEN c
    ELSE LET half == Repeat(c, n \div 2)
         IN  half \o half \o (IF n % 2 = 1 THEN c ELSE "")

\* the base-16 digits of v, most significant first, no padding
RECURSIVE HexDigitsOf(_, _)
HexDigitsOf(v, digits) ==
    IF v < 16 THEN Chr(digits, v + 1)
    ELSE HexDigitsOf(v \div 16, digits) \o Chr(digits, (v % 16) + 1)

\* %<w>.<w>X and %<w>.<w>x: at least w digits, zero filled; more when v needs more
SprintfHex(w, v, digits) ==
    LET d == HexDigitsOf(v, digits)
    IN  Repeat("0", w - Len(d)) \o d

\* the digit count a fileScale format asks for
ScaleDigits(fileScale) ==
    CASE fileScale = hex16Bits -> 4
      [] fileScale = hex32Bits -> 8
      [] fileScale = hex64Bits -> 16

SprintfScale(fileScale, v) == SprintfHex(ScaleDigits(fileScale), v, UpperDigits)

\* the hex text printed as it is, without the padding
SprintfLeft_NoPadding(n, s) == s

\* %-<n>s: left-justified, padded with spaces on the right to n; never cut
SprintfLeft(n, s) == s \o Repeat(" ", n - Len(s))

\* %c of a printable byte: the ASCII character 0x20..0x7E.  A TLA+ string
\* literal cannot hold the grave accent (0x60); "\t", which no printable byte
\* yields, stands for it.
PrintableChars ==
    " !\"#$%&'()*+,-./0123456789:;<=>?@ABCDEFGHIJKLMNOPQRSTUVWXYZ[\\]^_\tabcdefghijklmnopqrstuvwxyz{|}~"

SprintfC(ch) == Chr(PrintableChars, ch - chSpace + 1)

(***************************************************************************)
(* isPrintable (src/hexdump.go:158-165).                                   *)
(***************************************************************************)
isPrintable(ch) == ch >= chSpace /\ ch < chDel

(***************************************************************************)
(* formatBuffer (src/hexdump.go:117-152).  The value is the lines printed, *)
(* in order, and the returned position.                                    *)
(***************************************************************************)
\* the format string with " : " after the hex column too
outputFormat_SameSeparators(fileScale, displayWidth, linePosition, hexDigits, chrDigits) ==
    SprintfScale(fileScale, linePosition) \o " : "
        \o SprintfLeft(3 * displayWidth, hexDigits) \o " : " \o chrDigits \o "\n"

\* line 128: the format string built for Printf, applied to its three operands
outputFormat(fileScale, displayWidth, linePosition, hexDigits, chrDigits) ==
    SprintfScale(fileScale, linePosition) \o " : "
        \o SprintfLeft(3 * displayWidth, hexDigits) \o "  : " \o chrDigits \o "\n"

\* the loop body without line 136: a flushed row leaves linePosition as it was
LoopBody_StaleLinePosition(st, i, buffer, fileScale, displayWidth) ==
    LET widthCounter == st.position % displayWidth
        flush == widthCounter = 0 /\ i > 0
        out1  == IF flush
                 THEN Append(st.out, outputFormat(fileScale, displayWidth,
                                 st.linePosition, st.hexDigits, st.chrDigits))
                 ELSE st.out
        hex1  == IF flush THEN "" ELSE st.hexDigits
        chr1  == IF flush THEN "" ELSE st.chrDigits
        b     == buffer[i + 1]
    IN  [position     |-> st.position + 1,
         linePosition |-> st.linePosition,
         hexDigits    |-> hex1 \o " " \o SprintfHex(2, b, LowerDigits),
         chrDigits    |-> IF isPrintable(b) THEN chr1 \o SprintfC(b) ELSE chr1 \o ".",
         out          |-> out1]

\* lines 131-147: one pass of the loop body on byte i (0-based) of the buffer.
\* position is a uint64; the offsets of the model stay far below 2^64.
LoopBody(st, i, buffer, fileScale, displayWidth) ==
    LET widthCounter == st.position % displayWidth
        flush == widthCounter = 0 /\ i > 0
        out1  == IF flush
                 THEN Append(st.out, outputFormat(fileScale, displayWidth,
                                 st.linePosition, st.hexDigits, st.chrDigits))
                 ELSE st.out
        hex1  == IF flush THEN "" ELSE st.hexDigits
        chr1  == IF flush THEN "" ELSE st.chrDigits
        lp1   == IF flush THEN st.position ELSE st.linePosition
        b     == buffer[i + 1]
    IN  [position     |-> st.position + 1,
         linePosition |-> lp1,
         hexDigits    |-> hex1 \o " " \o SprintfHex(2, b, LowerDigits),
         chrDigits    |-> IF isPrintable(b) THEN chr1 \o SprintfC(b) ELSE chr1 \o ".",
         out          |-> out1]

\* line 129: for i := lo; i < hi; i++ { body }.  The passes run in index order;
\* the range is halved only to keep the evaluation shallow.
RECURSIVE ForLoop(_, _, _, _, _, _)
ForLoop(st, lo, hi, buffer, fileScale, displayWidth) ==
    IF hi <= lo THEN st
    ELSE IF hi = lo + 1 THEN LoopBody(st, lo, buffer, fileScale, displayWidth)
    ELSE LET mid  == (lo + hi) \div 2
             left == ForLoop(st, lo, mid, buffer, fileScale, displayWidth)
         IN  IF left.position >= st.position   \* always so: this evaluates left first
             THEN ForLoop(left, mid, hi, buffer, fileScale, displayWidth)
             ELSE left

\* formatBuffer without line 150: the row left when the loop ends is not printed
formatBuffer_NoFinalFlush(buffer, bytesInBuffer, fileScale, position, displayWidth) ==
    LET st0 == [position |-> position, linePosition |-> position,
                hexDigits |-> "", chrDigits |-> "", out |-> <<>>]
        st  == ForLoop(st0, 0, bytesInBuffer, buffer, fileScale, displayWidth)
    IN  [out |-> st.out, position |-> st.position]

formatBuffer(buffer, bytesInBuffer, fileScale, position, displayWidth) ==
    LET st0 == [position |-> position, linePosition |-> position,
                hexDigits |-> "", chrDigits |-> "", out |-> <<>>]
        st  == ForLoop(st0, 0, bytesInBuffer, buffer, fileScale, displayWidth)
    IN  [out      |-> Append(st.out, outputFormat(fileScale, displayWidth,
                                 st.linePosition, st.hexDigits, st.chrDigits)),
         position |-> st.position]

(***************************************************************************)
(* The file system and the streams the program is run on.  A path is      *)
(* missing (os.Stat fails), a directory (not regular), a regular file that *)
(* cannot be opened, or a readable regular file.                           *)
(***************************************************************************)
MultiLen == 70

BigLen == 8202

SourceLen(name) ==
    CASE name = "empty" -> 0
      [] name = "small" -> 4
      [] name = "multi" -> MultiLen
      [] name = "chunk" -> bufferSize
      [] name = "big"   -> BigLen
      [] OTHER          -> 0

\* byte j (0-based) of a source
SourceByte(name, j) ==
    CASE name = "small" -> <<65, 66, 10, 255>>[j + 1]
      [] name = "multi" -> (j * 37 + 11) % 256
      [] name = "chunk" -> (j * 5 + 32) % 256
      [] name = "big"   -> (j * 7 + 3) % 256
      [] OTHER          -> 0

StatOk(path) == path # "missing"

IsRegular(path) == path \notin {"missing", "dir"}

OpenOk(path) == path \notin {"missing", "dir", "locked"}

nil == "<nil>"

EOF == "EOF"

NoFile == [fd |-> 0, name |-> "<nil>"]

Stdin == [fd |-> 0, name |-> "stdin"]

Min(a, b) == IF a < b THEN a ELSE b

VARIABLES
    wide, extraWide,    \* the -w and -x flags
    args,               \* flag.Args(): the paths
    stdinSrc,           \* the stream behind os.Stdin
    pc,                 \* where main is
    i,                  \* main's loop index (1-based)
    displayWidth,
    fh, fileScale,      \* hexdump's parameters
    offset,             \* hexdump's running offset
    readPos,            \* the file position of fh
    openFiles,          \* descriptors opened by os.Open and not yet closed
    deferred,           \* main's deferred fh.Close() calls, oldest first
    nextFd,
    stdout, stderr,     \* what was written to each, one element per write
    exitCode,
    dumps,              \* history: one record per hexdump call
    shortLeft, errLeft, \* short reads and read errors the environment may still deliver
    probe               \* the input and result of the address scale selection

vars == <<wide, extraWide, args, stdinSrc, pc, i, displayWidth, fh, fileScale,
          offset, readPos, openFiles, deferred, nextFd, stdout, stderr,
          exitCode, dumps, shortLeft, errLeft, probe>>

(***************************************************************************)
(* Bounds of the model.                                                    *)
(***************************************************************************)
MaxArgs == 2

MaxShortReads == 2

MaxReadErrors == 1

MaxStreamArgs == 1

ProbeSpan == 3

RECURSIVE SeqsUpTo(_, _)
SeqsUpTo(S, n) ==
    IF n = 0 THEN {<<>>}
    ELSE LET shorter == SeqsUpTo(S, n - 1)
         IN  shorter \cup {Append(q, e) : q \in {r \in shorter : Len(r) = n - 1}, e \in S}

(***************************************************************************)
(* openRegularFile (src/hexdump.go:174-202).                               *)
(***************************************************************************)
\* the scale selection with <= for <
FileSizeScale_Inclusive(size) ==
    IF ~Less64(maxUint16, size) THEN hex16Bits
    ELSE IF ~Less64(maxUint32, size) THEN hex32Bits
    ELSE hex64Bits

\* lines 191-198: the address scale of a file of the given (int64) size
FileSizeScale(size) ==
    IF Less64(size, maxUint16) THEN hex16Bits
    ELSE IF Less64(size, maxUint32) THEN hex32Bits
    ELSE hex64Bits

\* line 74: the scale main passes for os.Stdin
StdinScale == hex64Bits

openRegularFile(filename, fd) ==
    IF ~StatOk(filename)
    THEN [fh |-> NoFile, fileSizeScale |-> "",
          err |-> "stat " \o filename \o ": no such file or directory"]
    ELSE IF ~IsRegular(filename)
    THEN [fh |-> NoFile, fileSizeScale |-> "",
          err |-> "open " \o filename \o ": It's not a regular file"]
    ELSE IF ~OpenOk(filename)
    THEN [fh |-> NoFile, fileSizeScale |-> FileSizeScale(Int64(SourceLen(filename))),
          err |-> "open " \o filename \o ": permission denied"]
    ELSE [fh |-> [fd |-> fd, name |-> filename],
          fileSizeScale |-> FileSizeScale(Int64(SourceLen(filename))),
          err |-> nil]

(***************************************************************************)
(* fh.Read(buffer) on an *os.File with a 4096-byte buffer: n >= 1 bytes    *)
(* and no error, or 0 bytes and io.EOF at the end of the data, or 0 bytes  *)
(* and another error.  (os.File turns a zero-byte read into io.EOF.)       *)
(***************************************************************************)
ShortSizes(width) == {1, width, width + 3}

SourceOf(f) == IF f.name = "stdin" THEN stdinSrc ELSE f.name

ReadResults(f, pos, width, short, errs) ==
    LET remaining == SourceLen(SourceOf(f)) - pos
        full      == Min(bufferSize, remaining)
    IN  {[n |-> full, err |-> nil] : u \in IF remaining > 0 THEN {0} ELSE {}}
        \cup {[n |-> k, err |-> nil] :
                 k \in IF short > 0 THEN {m \in ShortSizes(width) : m < full} ELSE {}}
        \cup {[n |-> 0, err |-> EOF] : u \in IF remaining = 0 THEN {0} ELSE {}}
        \cup {[n |-> 0, err |-> "read " \o f.name \o ": input/output error"] :
                 u \in IF errs > 0 THEN {0} ELSE {}}

\* the first n bytes of the buffer after a read of n bytes at pos
BufferAfterRead(f, pos, n) == [k \in 1..n |-> SourceByte(SourceOf(f), pos + k - 1)]

(***************************************************************************)
(* Initial states: the command line and the environment.                   *)
(***************************************************************************)
Paths == {"missing", "dir", "locked", "small"}


NoProbe == [src |-> "none", size |-> Int64(0), scale |-> ""]

InitWith(paths, streams, maxArgs, short, errs) ==
    /\ wide \in BOOLEAN
    /\ extraWide \in BOOLEAN
    /\ args \in SeqsUpTo(paths, maxArgs)
    /\ stdinSrc \in IF args = <<>> THEN streams ELSE {"empty"}
    /\ pc = "main"
    /\ i = 0
    /\ displayWidth = 0
    /\ fh = NoFile
    /\ fileScale = ""
    /\ offset = 0
    /\ readPos = 0
    /\ openFiles = {}
    /\ deferred = <<>>
    /\ nextFd = 3
    /\ stdout = <<>>
    /\ stderr = <<>>
    /\ exitCode = 0
    /\ dumps = <<>>
    /\ shortLeft = short
    /\ errLeft = errs
    /\ probe = NoProbe

\* the program run on up to MaxArgs paths (or on an empty standard input)
Init == InitWith(Paths, {"empty"}, MaxArgs, MaxShortReads, MaxReadErrors)

(***************************************************************************)
(* main (src/hexdump.go:48-87).                                            *)
(***************************************************************************)
\* lines 57-60: both width flags
UsageError ==
    /\ pc = "main"
    /\ wide /\ extraWide
    /\ stderr' = Append(stderr,
                   "Error: Wide and Extra wide options are mutually exclusive\n")
    /\ exitCode' = 1
    /\ pc' = "exit"
    /\ UNCHANGED <<wide, extraWide, args, stdinSrc, i, displayWidth, fh, fileScale,
                   offset, readPos, openFiles, deferred, nextFd, stdout, dumps,
                   shortLeft, errLeft, probe>>

\* lines 62-69: the display width
SelectWidth ==
    /\ pc = "main"
    /\ ~(wide /\ extraWide)
    /\ displayWidth' = IF wide THEN wideWidth
                       ELSE IF extraWide THEN extraWideWidth
                       ELSE normalWidth
    /\ pc' = IF Len(args) = 0 THEN "stdin" ELSE "loop"
    /\ i' = 1
    /\ UNCHANGED <<wide, extraWide, args, stdinSrc, fh, fileScale, offset, readPos,
                   openFiles, deferred, nextFd, stdout, stderr, exitCode, dumps,
                   shortLeft, errLeft, probe>>

\* the entry of hexdump(f, scale, displayWidth): lines 95-98
EnterHexdump(f, scale, arg) ==
    /\ fh' = f
    /\ fileScale' = scale
    /\ offset' = 0
    /\ readPos' = 0
    /\ dumps' = Append(dumps, [src |-> f.name, arg |-> arg, scale |-> scale,
                               first |-> Len(stdout) + 1, last |-> Len(stdout),
                               reads |-> <<>>, calls |-> <<>>, status |-> "running"])
    /\ pc' = "hexdump"

\* lines 73-74: no path, dump os.Stdin
MainStdin ==
    /\ pc = "stdin"
    /\ EnterHexdump(Stdin, StdinScale, 0)
    /\ UNCHANGED <<wide, extraWide, args, stdinSrc, i, displayWidth, openFiles,
                   deferred, nextFd, stdout, stderr, exitCode, shortLeft, errLeft,
                   probe>>

\* the loop leaving at the first rejected path
MainOpen_StopsAtRejected ==
    /\ pc = "loop"
    /\ i <= Len(args)
    /\ LET r == openRegularFile(args[i], nextFd)
       IN  IF r.err # nil
           THEN /\ stderr' = Append(stderr,
                               "\nWarning: Skipping file: " \o r.err \o "\n")
                /\ i' = Len(args) + 1
                /\ UNCHANGED <<pc, fh, fileScale, offset, readPos, openFiles,
                               deferred, nextFd, dumps>>
           ELSE /\ openFiles' = openFiles \cup {r.fh.fd}
                /\ nextFd' = nextFd + 1
                /\ deferred' = Append(deferred, r.fh.fd)
                /\ EnterHexdump(r.fh, r.fileSizeScale, i)
                /\ UNCHANGED <<i, stderr>>
    /\ UNCHANGED <<wide, extraWide, args, stdinSrc, displayWidth, stdout, exitCode,
                   shortLeft, errLeft, probe>>

\* lines 76-85: one pass of the loop over args, up to the call of hexdump
MainOpen ==
    /\ pc = "loop"
    /\ i <= Len(args)
    /\ LET r == openRegularFile(args[i], nextFd)
       IN  IF r.err # nil
           THEN /\ stderr' = Append(stderr,
                               "\nWarning: Skipping file: " \o r.err \o "\n")
                /\ i' = i + 1
                /\ UNCHANGED <<pc, fh, fileScale, offset, readPos, openFiles,
                               deferred, nextFd, dumps>>
           ELSE /\ openFiles' = openFiles \cup {r.fh.fd}
                /\ nextFd' = nextFd + 1
                /\ deferred' = Append(deferred, r.fh.fd)
                /\ EnterHexdump(r.fh, r.fileSizeScale, i)
                /\ UNCHANGED <<i, stderr>>
    /\ UNCHANGED <<wide, extraWide, args, stdinSrc, displayWidth, stdout, exitCode,
                   shortLeft, errLeft, probe>>

(***************************************************************************)
(* hexdump (src/hexdump.go:95-110): one pass of its loop.                  *)
(***************************************************************************)
LastDump == dumps[Len(dumps)]

Note(r, printed, status, calls) ==
    [dumps EXCEPT ![Len(dumps)] =
        [@ EXCEPT !.reads = Append(@, r), !.calls = calls,
                  !.last = Len(printed), !.status = status]]

\* line 107: hexdump returns into main
ReturnToMain ==
    /\ pc' = IF fh.name = "stdin" THEN "return" ELSE "loop"
    /\ i' = IF fh.name = "stdin" THEN i ELSE i + 1

\* the test taking io.EOF for a successful read
ReadSucceeded_OrEOF(err) == err = nil \/ err = EOF

\* line 101: the test that sends what was read to formatBuffer
ReadSucceeded(err) == err = nil

HexdumpRead ==
    /\ pc = "hexdump"
    /\ \E r \in ReadResults(fh, readPos, displayWidth, shortLeft, errLeft) :
          IF ReadSucceeded(r.err)
          THEN LET buffer == BufferAfterRead(fh, readPos, r.n)
                   fb     == formatBuffer(buffer, r.n, fileScale, offset, displayWidth)
                   out    == stdout \o fb.out
               IN  /\ stdout' = out
                   /\ offset' = fb.position
                   /\ readPos' = readPos + r.n
                   /\ shortLeft' = IF r.n < Min(bufferSize,
                                                SourceLen(SourceOf(fh)) - readPos)
                                   THEN shortLeft - 1 ELSE shortLeft
                   /\ dumps' = Note(r, out, "running",
                                    Append(LastDump.calls,
                                           [bytesInBuffer |-> r.n, position |-> offset]))
                   /\ UNCHANGED <<pc, i, errLeft>>
          ELSE IF r.err # EOF
          THEN LET out == Append(stdout, "Error: " \o r.err \o "\n")
               IN  /\ stdout' = out
                   /\ errLeft' = errLeft - 1
                   /\ dumps' = Note(r, out, "error", LastDump.calls)
                   /\ ReturnToMain
                   /\ UNCHANGED <<offset, readPos, shortLeft>>
          ELSE /\ dumps' = Note(r, stdout, "eof", LastDump.calls)
               /\ ReturnToMain
               /\ UNCHANGED <<stdout, offset, readPos, shortLeft, errLeft>>
    /\ UNCHANGED <<wide, extraWide, args, stdinSrc, displayWidth, fh, fileScale,
                   openFiles, deferred, nextFd, stderr, exitCode, probe>>

\* line 87: main returns and its deferred fh.Close() calls run (line 82)
MainReturn ==
    /\ \/ pc = "return"
       \/ pc = "loop" /\ i > Len(args)
    /\ openFiles' = openFiles \ {deferred[k] : k \in 1..Len(deferred)}
    /\ deferred' = <<>>
    /\ pc' = "done"
    /\ UNCHANGED <<wide, extraWide, args, stdinSrc, i, displayWidth, fh, fileScale,
                   offset, readPos, nextFd, stdout, stderr, exitCode, dumps,
                   shortLeft, errLeft, probe>>

(***************************************************************************)
(* The address scale selection on its own: a size, or os.Stdin.            *)
(***************************************************************************)
SelectScale ==
    /\ probe.src \in {"stdin", "file"}
    /\ probe.scale = ""
    /\ probe' = [probe EXCEPT !.scale = IF probe.src = "stdin" THEN StdinScale
                                        ELSE FileSizeScale(probe.size)]
    /\ UNCHANGED <<wide, extraWide, args, stdinSrc, pc, i, displayWidth, fh,
                   fileScale, offset, readPos, openFiles, deferred, nextFd, stdout,
                   stderr, exitCode, dumps, shortLeft, errLeft>>

Next ==
    \/ UsageError
    \/ SelectWidth
    \/ MainStdin
    \/ MainOpen
    \/ HexdumpRead
    \/ MainReturn

Spec == Init /\ [][Next]_vars
(***************************************************************************)
(* The other specifications: one stream of several rows delivered in any   *)
(* mix of short and full reads; large streams read in full chunks; and the *)
(* address scale selection over sizes around its boundaries.               *)
(***************************************************************************)
StreamPaths == {"missing", "multi"}

Streams == {"empty", "small", "multi"}

InitStream == InitWith(StreamPaths, Streams, MaxStreamArgs, MaxShortReads, MaxReadErrors)

SpecStream == InitStream /\ [][Next]_vars

BigPaths == {"missing", "chunk", "big"}

BigStreams == {"empty", "chunk", "big"}

\* every read fills the buffer or reaches the end of the data, and none fails
InitFull == InitWith(BigPaths, BigStreams, MaxStreamArgs, 0, 0)

SpecFull == InitFull /\ [][Next]_vars

ProbeDigits == (0..ProbeSpan) \cup ((Radix - 1 - ProbeSpan)..(Radix - 1))

ProbeSizes == {[hi |-> h, lo |-> l] : h \in {0, 1, Radix - 2, Radix - 1, Radix}, l \in ProbeDigits}

InitScale ==
    /\ wide = FALSE
    /\ extraWide = FALSE
    /\ args = <<>>
    /\ stdinSrc = "empty"
    /\ pc = "idle"
    /\ i = 0
    /\ displayWidth = 0
    /\ fh = NoFile
    /\ fileScale = ""
    /\ offset = 0
    /\ readPos = 0
    /\ openFiles = {}
    /\ deferred = <<>>
    /\ nextFd = 3
    /\ stdout = <<>>
    /\ stderr = <<>>
    /\ exitCode = 0
    /\ dumps = <<>>
    /\ shortLeft = 0
    /\ errLeft = 0
    /\ probe \in {[src |-> s, size |-> z, scale |-> ""] : s \in {"stdin", "file"}, z \in ProbeSizes}

NextScale == SelectScale

SpecScale == InitScale /\ [][NextScale]_vars

(***************************************************************************)
(* Reading the output back: the fields of a printed line, found from the   *)
(* text alone.  a is the number of digits of the address field.            *)
(***************************************************************************)
DigitSet(digits) == {Chr(digits, v + 1) : v \in 0..15}

DigitMap(digits) ==
    [c \in DigitSet(digits) |-> CHOOSE v \in 0..15 : Chr(digits, v + 1) = c]

UpperSet == DigitSet(UpperDigits)

LowerSet == DigitSet(LowerDigits)

UpperMap == DigitMap(UpperDigits)

LowerMap == DigitMap(LowerDigits)

IsDigitOf(c, digits) == IF digits = UpperDigits THEN c \in UpperSet ELSE c \in LowerSet

DigitValue(c, digits) == IF digits = UpperDigits THEN UpperMap[c] ELSE LowerMap[c]

RECURSIVE ParseHex(_, _)
ParseHex(s, digits) ==
    IF Len(s) = 0 THEN 0
    ELSE 16 * ParseHex(SubSeq(s, 1, Len(s) - 1), digits)
           + DigitValue(Chr(s, Len(s)), digits)

AllDigitsOf(s, digits) == \A k \in 1..Len(s) : IsDigitOf(Chr(s, k), digits)

\* a byte as the hex column shows it at p: a space and two lowercase hex digits
ValidGroup(l, p) ==
    /\ p + 2 <= Len(l)
    /\ Chr(l, p) = " "
    /\ IsDigitOf(Chr(l, p + 1), LowerDigits)
    /\ IsDigitOf(Chr(l, p + 2), LowerDigits)

RECURSIVE HexRunFrom(_, _)
HexRunFrom(l, p) == IF ValidGroup(l, p) THEN 1 + HexRunFrom(l, p + 3) ELSE 0

\* the number of bytes a line shows: the hex text starts after "<address> : "
RowCount(l, a) == HexRunFrom(l, a + 4)

RowBytes(l, a) ==
    [g \in 1..RowCount(l, a) |->
        16 * DigitValue(Chr(l, a + 3 * g + 2), LowerDigits)
           + DigitValue(Chr(l, a + 3 * g + 3), LowerDigits)]

AddrValue(l, a) == ParseHex(SubSeq(l, 1, a), UpperDigits)

\* the place of the colon that follows the hex column: the first one after
\* the colon of "<address> : "
ColonAfterHex(l, a) ==
    LET C == {p \in (a + 3)..Len(l) : Chr(l, p) = ":"}
    IN  IF C = {} THEN 0 ELSE CHOOSE p \in C : \A q \in C : p <= q

\* the lines of stdout that hexdump call d printed through formatBuffer
RowLines(d) == d.first .. (IF d.status = "error" THEN d.last - 1 ELSE d.last)

Digits(d) == ScaleDigits(d.scale)

RECURSIVE BytesOfLines(_, _, _)
BytesOfLines(lo, hi, a) ==
    IF hi < lo THEN <<>>
    ELSE IF hi = lo THEN RowBytes(stdout[lo], a)
    ELSE LET mid == (lo + hi) \div 2
         IN  BytesOfLines(lo, mid, a) \o BytesOfLines(mid + 1, hi, a)

RECURSIVE Consumed(_)
Consumed(reads) ==
    IF reads = <<>> THEN 0 ELSE reads[Len(reads)].n + Consumed(SubSeq(reads, 1, Len(reads) - 1))

SourceOfDump(d) == IF d.src = "stdin" THEN stdinSrc ELSE d.src

SourcePrefix(name, n) == [j \in 1..n |-> SourceByte(name, j - 1)]

AllDumps == {dumps[k] : k \in 1..Len(dumps)}

(***************************************************************************)
(* C1.  The hex byte values of the lines of one dump, concatenated in      *)
(* output order, are the bytes read so far, in order; and when the reads   *)
(* (each of 1 to bufferSize bytes) ended with end-of-stream, they are the  *)
(* whole byte sequence of the source: nothing lost, duplicated, reordered. *)
(***************************************************************************)
C1_HexReconstructsStream ==
    \A d \in AllDumps :
        LET n == Consumed(d.reads)
        IN  /\ BytesOfLines(d.first, IF d.status = "error" THEN d.last - 1 ELSE d.last,
                            Digits(d))
                 = SourcePrefix(SourceOfDump(d), n)
            /\ d.status = "eof" => n = SourceLen(SourceOfDump(d))

\* a 70-byte source delivered in three or more reads and dumped to its end
C1_Witness ==
    \E d \in AllDumps :
        /\ d.status = "eof"
        /\ SourceOfDump(d) = "multi"
        /\ Len(d.reads) >= 4
        /\ \E k \in 1..Len(d.reads) : d.reads[k].n = 1

(***************************************************************************)
(* C2.  Address scale selection.  A regular file of size s gets the 16-bit *)
(* (4 digit) format iff s < 65535, the 32-bit (8 digit) format iff         *)
(* 65535 <= s < 4294967295, the 64-bit (16 digit) format iff               *)
(* s >= 4294967295; standard input always gets the 64-bit format.          *)
(* (s = hi * 65536 + lo.)                                                  *)
(***************************************************************************)
Below65535(s) == s.hi = 0 /\ s.lo < 65535

Below4294967295(s) == s.hi < 65535 \/ (s.hi = 65535 /\ s.lo < 65535)

LineForm(l, a, w, sep) ==
    LET k == RowCount(l, a)
        e == a + 3 + 3 * w          \* the last character of the hex column
    IN  /\ Len(l) = e + Len(sep) + k + 1
        /\ AllDigitsOf(SubSeq(l, 1, a), UpperDigits)
        /\ SubSeq(l, a + 1, a + 3) = " : "
        /\ k <= w
        /\ SubSeq(l, a + 4 + 3 * k, e) = Repeat(" ", 3 * (w - k))
        /\ SubSeq(l, e + 1, e + Len(sep)) = sep
        /\ \A p \in (e + Len(sep) + 1)..(Len(l) - 1) : Chr(l, p) # "\n"
        /\ Chr(l, Len(l)) = "\n"

HexColumnEnd(l, a) == ColonAfterHex(l, a) - 3

AsciiStart(l, a) == ColonAfterHex(l, a) + 2

C4_HexColumnWidth ==
    \A d \in AllDumps : \A m \in RowLines(d) :
        LET l == stdout[m]
            a == Digits(d)
            k == RowCount(l, a)
        IN  /\ k <= displayWidth
            /\ HexColumnEnd(l, a) - (a + 3) = 3 * displayWidth
            /\ SubSeq(l, a + 4 + 3 * k, HexColumnEnd(l, a))
                  = Repeat(" ", 3 * displayWidth - 3 * k)
            /\ AsciiStart(l, a) = AsciiStart(stdout[d.first], a)

\* a dump with a full row and a shorter row that came from a short read
C4_Witness ==
    \E d \in AllDumps : \E m, n \in RowLines(d) :
        /\ m < n /\ n < d.last
        /\ RowCount(stdout[m], Digits(d)) = displayWidth
        /\ RowCount(stdout[n], Digits(d)) = 3

(***************************************************************************)
(* C5.  main handles the paths in argument order: a rejected path gives    *)
(* one warning and no dump line, an admitted file is dumped to its end     *)
(* before the next path is touched, the dump output is in argument order,  *)
(* and every path is evaluated whatever was rejected before it.            *)
(***************************************************************************)
Rejected(path) == openRegularFile(path, 0).err # nil

\* the paths main has touched so far
Touched == IF Len(args) = 0 THEN 0 ELSE IF pc = "hexdump" THEN i ELSE i - 1

RejectedSoFar == {k \in 1..Touched : Rejected(args[k])}

AdmittedSoFar == {k \in 1..Touched : ~Rejected(args[k])}

WarningFor(path) ==
    "\nWarning: Skipping file: " \o openRegularFile(path, 0).err \o "\n"

C5_ArgumentOrder ==
    (Len(args) >= 1 /\ pc \in {"loop", "hexdump", "done"}) =>
        /\ Touched <= Len(args)
        /\ pc = "done" => Touched = Len(args)
        /\ Len(stderr) = Cardinality(RejectedSoFar)
        /\ \A k \in RejectedSoFar :
              stderr[Cardinality({j \in RejectedSoFar : j <= k})] = WarningFor(args[k])
        /\ Len(dumps) = Cardinality(AdmittedSoFar)
        /\ \A k \in AdmittedSoFar :
              LET m == Cardinality({j \in AdmittedSoFar : j <= k})
                  d == dumps[m]
              IN  /\ d.arg = k /\ d.src = args[k]
                  /\ d.first = IF m = 1 THEN 1 ELSE dumps[m - 1].last + 1
                  /\ d.status = "running" <=> (pc = "hexdump" /\ k = i)
                  /\ d.status = "eof" => /\ Consumed(d.reads) = SourceLen(d.src)
                                         /\ BytesOfLines(d.first, d.last, Digits(d))
                                               = SourcePrefix(d.src, SourceLen(d.src))
        /\ Len(dumps) >= 1 => dumps[Len(dumps)].last = Len(stdout)
        /\ Len(dumps) = 0 => stdout = <<>>

\* a rejected path followed by a regular file, both handled: one warning, then
\* the whole dump of the second
C5_Witness ==
    /\ pc = "done"
    /\ Len(args) = 2
    /\ Rejected(args[1])
    /\ ~Rejected(args[2])
    /\ Len(stderr) = 1
    /\ Len(dumps) = 1 /\ dumps[1].status = "eof" /\ dumps[1].arg = 2
    /\ Len(stdout) = 1

(***************************************************************************)
(* C6.  Every diagnostic (the warning for a skipped file, the message for  *)
(* a read error) goes to the error channel and never to standard output:   *)
(* standard output holds dump lines only.                                  *)
(***************************************************************************)
IsDiagnostic(l) ==
    \/ Len(l) >= 6 /\ SubSeq(l, 1, 6) = "Error:"
    \/ Len(l) >= 9 /\ SubSeq(l, 1, 9) = "\nWarning:"

ReadFailures == Cardinality({k \in 1..Len(dumps) : dumps[k].status = "error"})

C6_DiagnosticsOnlyOnStderr ==
    /\ \A m \in 1..Len(stdout) : ~IsDiagnostic(stdout[m])
    /\ \A m \in 1..Len(stderr) : IsDiagnostic(stderr[m])
    /\ pc \in {"loop", "hexdump", "return", "done"} =>
          Len(stderr) = Cardinality(RejectedSoFar) + ReadFailures

(***************************************************************************)
(* C7.  A file handle is closed when the dump of its file ends and before  *)
(* the next path is opened: at most one input file is open at any moment.  *)
(***************************************************************************)
C7_OneOpenFileAtMost ==
    /\ Cardinality(openFiles) <= 1
    /\ (pc = "loop" /\ i <= Len(args)) => openFiles = {}

(***************************************************************************)
(* C8.  On one stream the address of every printed line is the absolute    *)
(* offset of the first byte the line shows, the bytes of a line never      *)
(* cross a multiple of W, each call of formatBuffer receives the offset    *)
(* the previous one returned, and a row cut by a short read is printed as  *)
(* two lines, the second with the mid-row offset as its address.           *)
(***************************************************************************)
C8_AddressIsStreamOffset ==
    \A d \in AllDumps :
        LET a == Digits(d)
        IN  /\ \A m \in RowLines(d) :
                  LET l    == stdout[m]
                      addr == AddrValue(l, a)
                      k    == RowCount(l, a)
                  IN  /\ addr = IF m = d.first THEN 0
                                ELSE AddrValue(stdout[m - 1], a) + RowCount(stdout[m - 1], a)
                      /\ RowBytes(l, a)
                            = [g \in 1..k |-> SourceByte(SourceOfDump(d), addr + g - 1)]
                      /\ (addr % displayWidth) + k <= displayWidth
                      /\ addr % displayWidth # 0 =>
                            \E c \in 1..Len(d.calls) : d.calls[c].position = addr
            /\ \A c \in 1..Len(d.calls) :
                  /\ d.calls[c].position =
                        IF c = 1 THEN 0
                        ELSE d.calls[c - 1].position + d.calls[c - 1].bytesInBuffer
                  /\ \E m \in RowLines(d) : AddrValue(stdout[m], a) = d.calls[c].position

\* a read that ended in mid-row, and the rest of that row printed by the next call
C8_Witness ==
    \E d \in AllDumps : \E c \in 2..Len(d.calls) : \E m \in RowLines(d) :
        /\ d.calls[c].position % displayWidth = 3
        /\ d.calls[c].bytesInBuffer > displayWidth
        /\ AddrValue(stdout[m], Digits(d)) = d.calls[c].position
        /\ RowCount(stdout[m], Digits(d)) = displayWidth - 3
        /\ m < d.last

(***************************************************************************)
(* C9.  hexdump calls formatBuffer only for a read that yielded at least   *)
(* one byte: a read of zero bytes adds no line of the dump, every line     *)
(* shows at least one byte, and an empty source gives no output at all.    *)
(***************************************************************************)
DataReads(d) == SelectSeq(d.reads, LAMBDA r : r.n >= 1)

C9_FormatterOnlyForData ==
    \A d \in AllDumps :
        /\ \A c \in 1..Len(d.calls) : d.calls[c].bytesInBuffer >= 1
        /\ Len(d.calls) = Len(DataReads(d))
        /\ \A c \in 1..Len(d.calls) : d.calls[c].bytesInBuffer = DataReads(d)[c].n
        /\ \A m \in RowLines(d) : RowCount(stdout[m], Digits(d)) >= 1
        /\ Len(d.calls) = 0 => RowLines(d) = {}
        /\ (d.status = "eof" /\ SourceLen(SourceOfDump(d)) = 0) =>
              (d.last < d.first /\ stdout = <<>>)

\* an empty standard input read to its end: nothing was printed
C9_Witness ==
    \E d \in AllDumps :
        /\ d.src = "stdin" /\ stdinSrc = "empty"
        /\ d.status = "eof"
        /\ Len(d.reads) = 1 /\ d.reads[1].n = 0
        /\ stdout = <<>>

(***************************************************************************)
(* C10.  When every read of a stream but possibly the last returns a full  *)
(* chunk of 4096 bytes, every printed row but the last of the stream holds *)
(* exactly W bytes and starts at a multiple of W.                          *)
(***************************************************************************)
C10_FullRowsOnFullChunks ==
    \A d \in AllDumps :
        (\A c \in 1..(Len(d.calls) - 1) : d.calls[c].bytesInBuffer = bufferSize) =>
            \A m \in RowLines(d) :
                (\E n \in RowLines(d) : n > m) =>
                    /\ RowCount(stdout[m], Digits(d)) = displayWidth
                    /\ AddrValue(stdout[m], Digits(d)) % displayWidth = 0

\* two full chunks and a last read of 10 bytes: the only short row is the last
C10_Witness ==
    \E d \in AllDumps :
        /\ d.status = "eof"
        /\ Len(d.calls) = 3
        /\ d.calls[1].bytesInBuffer = bufferSize /\ d.calls[2].bytesInBuffer = bufferSize
        /\ d.calls[3].bytesInBuffer < displayWidth
        /\ RowCount(stdout[d.last], Digits(d)) = d.calls[3].bytesInBuffer
        /\ RowCount(stdout[d.last - 1], Digits(d)) = displayWidth
====
